---- MODULE Spec2Model ----
(***************************************************************************)
(* Model of the glance notification server (src/main.rs): the ordered      *)
(* notification history, the visible_on_bar cursor, the ID generator, the  *)
(* two D-Bus methods that mutate the history (notify, close_notification)  *)
(* and the three signal-driven operations (mark read, previous, next),     *)
(* each followed by the render it prints.                                  *)
(*                                                                         *)
(* A string is the sequence of its pieces; a placeholder such as {app} is  *)
(* one piece and so is each text a caller supplies, so str::replace is the *)
(* substitution of one piece for another.  The empty string is <<>>.       *)
(* Indices are 0-based as in the code; history[i] of the code is           *)
(* history[i + 1] here.                                                    *)
(***************************************************************************)
EXTENDS Integers, Sequences, FiniteSets

VARIABLES history, visible_on_bar, last_notification_id, out, result, trigger, pre,
          lock, pc, call

vars == <<history, visible_on_bar, last_notification_id, out, result, trigger, pre,
          lock, pc, call>>

\* Largest ID of the modelled ID width (u32::MAX in the code).  Keys are
\* unique and never 0, so it also bounds the length of the history.
MaxId == 3

\* ------------------------------------------------------------------------
\* Option<usize>

None == <<>>

Some(i) == <<i>>

is_some(c) == c # None

unwrap(c) == c[1]

\* Derived ordering of Option: None < Some(_), Some(a) >= Some(b) iff a >= b.
option_ge(a, b) ==
    IF b = None THEN TRUE
    ELSE IF a = None THEN FALSE
    ELSE unwrap(a) >= unwrap(b)

\* ------------------------------------------------------------------------
\* Configuration and notifications

read_format == <<"<b>*</b> [", "{app}", "] <b>", "{summary}", "</b>: ", "{body}">>

unread_format == <<"<span><b>* [", "{app}", "] ", "{summary}", ": ", "{body}", "</b></span>">>

bar_format == <<"[", "{app}", "] <b>", "{summary}", "</b>: ", "{body}">>

\* The texts a caller of notify supplies (app_name, summary, body).
Texts ==
    << [app_name |-> "X", summary |-> "S", body |-> "B"],
       [app_name |-> "{body}", summary |-> "T", body |-> "Y"] >>

\* A notification that is born read.
Notification_read(n) ==
    [app_name |-> Texts[n].app_name, summary |-> Texts[n].summary,
     body |-> Texts[n].body, read |-> TRUE]

Notification(n) ==
    [app_name |-> Texts[n].app_name, summary |-> Texts[n].summary,
     body |-> Texts[n].body, read |-> FALSE]

replace(s, from, to) == [i \in DOMAIN s |-> IF s[i] = from THEN to ELSE s[i]]

format_with(n, format) ==
    replace(replace(replace(format, "{app}", n.app_name),
                    "{summary}", n.summary),
            "{body}", n.body)

\* ------------------------------------------------------------------------
\* IndexMap<u32, Notification>: a sequence of [key, value] with unique keys

keys(h) == {h[i].key : i \in DOMAIN h}

get_index_of(h, id) == CHOOSE i \in DOMAIN h : h[i].key = id

remove_at(h, p) == SubSeq(h, 1, p - 1) \o SubSeq(h, p + 1, Len(h))

\* IndexMap::swap_remove_index: the last entry takes the removed one's place.
swap_remove_index(h, i) ==
    IF i >= Len(h) THEN h
    ELSE IF i = Len(h) - 1 THEN SubSeq(h, 1, Len(h) - 1)
    ELSE [SubSeq(h, 1, Len(h) - 1) EXCEPT ![i + 1] = h[Len(h)]]

shift_remove_index(h, i) ==
    IF i < Len(h) THEN remove_at(h, i + 1) ELSE h

\* Removal that takes the ID for a position.
shift_remove_as_index(h, id) == shift_remove_index(h, id)

shift_remove(h, id) ==
    IF id \in keys(h) THEN remove_at(h, get_index_of(h, id)) ELSE h

\* An upsert that moves a replaced entry to the end.
add_to_history_move(h, id, notification) ==
    Append(shift_remove(h, id), [key |-> id, value |-> notification])

add_to_history(h, id, notification) ==
    IF id \in keys(h)
    THEN [h EXCEPT ![get_index_of(h, id)].value = notification]
    ELSE Append(h, [key |-> id, value |-> notification])

\* ------------------------------------------------------------------------
\* Renderer

RECURSIVE join(_, _)
join(ss, sep) ==
    IF ss = <<>> THEN <<>>
    ELSE IF Len(ss) = 1 THEN ss[1]
    ELSE ss[1] \o sep \o join(Tail(ss), sep)

\* Iteration in insertion order, the .rev() left out.
rev_forward(h, i) == h[i]

\* .iter().rev(): position i of the reversed history
rev(h, i) == h[Len(h) + 1 - i]

get_notification_list(h) ==
    join([i \in 1..Len(h) |->
              LET notification == rev(h, i).value
              IN  format_with(notification,
                              IF notification.read THEN read_format ELSE unread_format)],
         <<"\n">>)

bar_text(h, index) == format_with(h[index + 1].value, bar_format)

\* Indexing history[index] panics when index is out of bounds.
index_panics(h, c) == is_some(c) /\ unwrap(c) >= Len(h)

text_of(h, c) == IF is_some(c) THEN bar_text(h, unwrap(c)) ELSE <<>>

\* The lines one call prints: none when bar_text panics.
display_notifications_on_bar(h, c) ==
    IF index_panics(h, c) THEN <<>>
    ELSE << [text |-> text_of(h, c), tooltip |-> get_notification_list(h)] >>

new_notification_display(h, c) ==
    IF index_panics(h, c) THEN <<>>
    ELSE << [text |-> text_of(h, c), tooltip |-> get_notification_list(h),
             class |-> "notify"] >>

\* ------------------------------------------------------------------------
\* HistoryStore helpers

\* An ID generator that wraps through 0.
new_id_wrapping(last) == (last + 1) % (MaxId + 1)

new_id(last) == IF last = MaxId THEN 1 ELSE last + 1

\* Marking that sets the flag of every entry.
mark_read_all(h, index) == [i \in DOMAIN h |-> [h[i] EXCEPT !.value.read = TRUE]]

mark_read(h, index) == [h EXCEPT ![index + 1].value.read = TRUE]

\* A clamp that sends the cursor back to the first entry.
reclamp_first(h, c) ==
    IF option_ge(c, Some(Len(h)))
    THEN (IF Len(h) = 0 THEN None ELSE Some(0))
    ELSE c

\* A clamp that never clears the cursor.
reclamp_saturating(h, c) ==
    IF option_ge(c, Some(Len(h)))
    THEN Some(IF Len(h) = 0 THEN 0 ELSE Len(h) - 1)
    ELSE c

\* A clamp that clears the cursor whenever it is out of range.
reclamp_none(h, c) ==
    IF option_ge(c, Some(Len(h))) THEN None ELSE c

reclamp(h, c) ==
    IF option_ge(c, Some(Len(h)))
    THEN (IF Len(h) = 0 THEN None ELSE Some(Len(h) - 1))
    ELSE c

\* A cursor one past the last index.
cursor_after_notify_len(h) == Some(Len(h))

cursor_after_notify(h) == Some(Len(h) - 1)

\* ------------------------------------------------------------------------
\* Results of an operation

Ok == [tag |-> "Ok", val |-> 0]

Unit == [tag |-> "Unit", val |-> 0]

Panic == [tag |-> "Panic", val |-> 0]

Id(id) == [tag |-> "Id", val |-> id]

Snapshot ==
    [history |-> history, visible_on_bar |-> visible_on_bar,
     last_notification_id |-> last_notification_id]

\* One completed trigger: the new state, what it printed and what it returned.
Step(op, id, n, h, c, l, o, r) ==
    /\ history' = h
    /\ visible_on_bar' = c
    /\ last_notification_id' = l
    /\ out' = o
    /\ result' = r
    /\ trigger' = [op |-> op, id |-> id, n |-> n]
    /\ pre' = Snapshot
    /\ UNCHANGED <<lock, pc, call>>

\* The two sources of triggers: the bus dispatching protocol calls and the
\* select loop of main receiving signals.
Threads == {"protocol", "signals"}

Free == "free"

NoCall == [op |-> "none", id |-> 0, n |-> 0]

Init ==
    /\ lock = Free
    /\ pc = [t \in Threads |-> "idle"]
    /\ call = [t \in Threads |-> NoCall]
    /\ history = <<>>
    /\ visible_on_bar = None
    /\ last_notification_id = 0
    /\ out = <<>>
    /\ result = Unit
    /\ trigger = [op |-> "init", id |-> 0, n |-> 0]
    /\ pre = [history |-> <<>>, visible_on_bar |-> None, last_notification_id |-> 0]

\* ------------------------------------------------------------------------
\* Protocol operations

\* notify that prints before it moves the cursor.
notify_render_first(replaces_id, n) ==
    LET l  == IF replaces_id = 0 THEN new_id(last_notification_id)
              ELSE last_notification_id
        id == IF replaces_id = 0 THEN l ELSE replaces_id
        h  == add_to_history(history, id, Notification(n))
        c  == cursor_after_notify(h)
    IN  Step("notify", replaces_id, n, h, c, l,
             new_notification_display(h, visible_on_bar),
             IF index_panics(h, c) THEN Panic ELSE Id(id))

notify(replaces_id, n) ==
    LET l  == IF replaces_id = 0 THEN new_id(last_notification_id)
              ELSE last_notification_id
        id == IF replaces_id = 0 THEN l ELSE replaces_id
        h  == add_to_history(history, id, Notification(n))
        c  == cursor_after_notify(h)
    IN  Step("notify", replaces_id, n, h, c, l,
             new_notification_display(h, c),
             IF index_panics(h, c) THEN Panic ELSE Id(id))

\* close_notification(0) that treats a missing cursor as nothing to remove.
close_notification_silent(id) ==
    LET h == IF id = 0
             THEN (IF is_some(visible_on_bar)
                   THEN shift_remove_index(history, unwrap(visible_on_bar))
                   ELSE history)
             ELSE shift_remove(history, id)
        c == reclamp(h, visible_on_bar)
    IN  Step("close", id, 0, h, c, last_notification_id,
             display_notifications_on_bar(h, c),
             IF index_panics(h, c) THEN Panic ELSE Ok)

close_notification(id) ==
    IF id = 0 /\ visible_on_bar = None
    THEN \* Option::unwrap on None panics before anything is removed
         Step("close", id, 0, history, visible_on_bar, last_notification_id,
              <<>>, Panic)
    ELSE LET h == IF id = 0
                  THEN shift_remove_index(history, unwrap(visible_on_bar))
                  ELSE shift_remove(history, id)
             c == reclamp(h, visible_on_bar)
         IN  Step("close", id, 0, h, c, last_notification_id,
                  display_notifications_on_bar(h, c),
                  IF index_panics(h, c) THEN Panic ELSE Ok)

\* ------------------------------------------------------------------------
\* Signal-driven operations

\* previous without the early return on an empty history.
previous_notification_unguarded ==
    IF index_panics(history, visible_on_bar)
    THEN Step("previous", 0, 0, history, visible_on_bar, last_notification_id,
              <<>>, Panic)
    ELSE LET h == IF is_some(visible_on_bar)
                  THEN mark_read(history, unwrap(visible_on_bar))
                  ELSE history
             c == IF visible_on_bar = None THEN Some(0)
                  ELSE IF unwrap(visible_on_bar) = 0 THEN visible_on_bar
                  ELSE Some(unwrap(visible_on_bar) - 1)
         IN  Step("previous", 0, 0, h, c, last_notification_id,
                  display_notifications_on_bar(h, c),
                  IF index_panics(h, c) THEN Panic ELSE Unit)

previous_notification ==
    IF history = <<>>
    THEN Step("previous", 0, 0, history, visible_on_bar, last_notification_id,
              <<>>, Unit)
    ELSE IF index_panics(history, visible_on_bar)
    THEN Step("previous", 0, 0, history, visible_on_bar, last_notification_id,
              <<>>, Panic)
    ELSE LET h == IF is_some(visible_on_bar)
                  THEN mark_read(history, unwrap(visible_on_bar))
                  ELSE history
             c == IF visible_on_bar = None THEN Some(0)
                  ELSE IF unwrap(visible_on_bar) = 0 THEN visible_on_bar
                  ELSE Some(unwrap(visible_on_bar) - 1)
         IN  Step("previous", 0, 0, h, c, last_notification_id,
                  display_notifications_on_bar(h, c), Unit)

\* next that leaves the entry at the last index unread.
next_notification_skip_last ==
    IF history = <<>>
    THEN Step("next", 0, 0, history, visible_on_bar, last_notification_id,
              <<>>, Unit)
    ELSE IF index_panics(history, visible_on_bar)
    THEN Step("next", 0, 0, history, visible_on_bar, last_notification_id,
              <<>>, Panic)
    ELSE LET h == IF is_some(visible_on_bar)
                     /\ unwrap(visible_on_bar) # Len(history) - 1
                  THEN mark_read(history, unwrap(visible_on_bar))
                  ELSE history
             c == IF visible_on_bar = None THEN Some(0)
                  ELSE IF unwrap(visible_on_bar) = Len(history) - 1 THEN visible_on_bar
                  ELSE Some(unwrap(visible_on_bar) + 1)
         IN  Step("next", 0, 0, h, c, last_notification_id,
                  display_notifications_on_bar(h, c), Unit)

next_notification ==
    IF history = <<>>
    THEN Step("next", 0, 0, history, visible_on_bar, last_notification_id,
              <<>>, Unit)
    ELSE IF index_panics(history, visible_on_bar)
    THEN Step("next", 0, 0, history, visible_on_bar, last_notification_id,
              <<>>, Panic)
    ELSE LET h == IF is_some(visible_on_bar)
                  THEN mark_read(history, unwrap(visible_on_bar))
                  ELSE history
             c == IF visible_on_bar = None THEN Some(0)
                  ELSE IF unwrap(visible_on_bar) = Len(history) - 1 THEN visible_on_bar
                  ELSE Some(unwrap(visible_on_bar) + 1)
         IN  Step("next", 0, 0, h, c, last_notification_id,
                  display_notifications_on_bar(h, c), Unit)

mark_read_and_render ==
    IF index_panics(history, visible_on_bar)
    THEN Step("mark_read", 0, 0, history, visible_on_bar, last_notification_id,
              <<>>, Panic)
    ELSE LET h == IF is_some(visible_on_bar)
                  THEN mark_read(history, unwrap(visible_on_bar))
                  ELSE history
         IN  Step("mark_read", 0, 0, h, visible_on_bar, last_notification_id,
                  display_notifications_on_bar(h, visible_on_bar), Unit)

\* ------------------------------------------------------------------------
\* The server: one trigger at a time

Notify == \E replaces_id \in 0..MaxId, n \in DOMAIN Texts : notify(replaces_id, n)

CloseNotification == \E id \in 0..MaxId : close_notification(id)

Previous == previous_notification

NextNotification == next_notification

MarkRead == mark_read_and_render

Next ==
    \/ Notify
    \/ CloseNotification
    \/ Previous
    \/ NextNotification
    \/ MarkRead

Spec == Init /\ [][Next]_vars

\* ------------------------------------------------------------------------
\* The server object behind its lock: each handler statement by statement

\* What each source can ask of the server object.
Calls(t) ==
    IF t = "protocol"
    THEN [op : {"notify"}, id : 0..MaxId, n : DOMAIN Texts]
             \cup [op : {"close"}, id : 0..MaxId, n : {0}]
    ELSE [op : {"mark_read", "previous", "next"}, id : {0}, n : {0}]

\* The handler returns or unwinds: what it printed, its result, and the
\* guard on the server object is dropped.
Return(t, o, r) ==
    /\ out' = o
    /\ result' = r
    /\ lock' = Free
    /\ pc' = [pc EXCEPT ![t] = "idle"]
    /\ call' = [call EXCEPT ![t] = NoCall]

\* A trigger arrives and its thread asks for the server object.
Arrive(t) ==
    /\ pc[t] = "idle"
    /\ \E c \in Calls(t) : call' = [call EXCEPT ![t] = c]
    /\ pc' = [pc EXCEPT ![t] = "waiting"]
    /\ UNCHANGED <<history, visible_on_bar, last_notification_id, out, result,
                   trigger, pre, lock>>

\* Exclusive access taken although another handler may hold it.
get_mut_unchecked(t) ==
    /\ pc[t] = "waiting"
    /\ lock' = t
    /\ pc' = [pc EXCEPT ![t] = "locked"]
    /\ UNCHANGED <<history, visible_on_bar, last_notification_id, out, result,
                   trigger, pre, call>>

\* Exclusive access to the server object is granted only when nobody has it.
get_mut(t) ==
    /\ pc[t] = "waiting"
    /\ lock = Free
    /\ lock' = t
    /\ pc' = [pc EXCEPT ![t] = "locked"]
    /\ UNCHANGED <<history, visible_on_bar, last_notification_id, out, result,
                   trigger, pre, call>>

\* The handler's statements on the history, up to its cursor assignment.
mutate_history(t) ==
    LET c == call[t] IN
    /\ pc[t] = "locked"
    /\ UNCHANGED <<visible_on_bar, trigger, pre>>
    /\ IF c.op \in {"previous", "next"} /\ history = <<>>
       THEN /\ Return(t, <<>>, Unit)
            /\ UNCHANGED <<history, last_notification_id>>
       ELSE IF \/ c.op = "close" /\ c.id = 0 /\ visible_on_bar = None
               \/ c.op \in {"mark_read", "previous", "next"}
                    /\ index_panics(history, visible_on_bar)
       THEN /\ Return(t, <<>>, Panic)
            /\ UNCHANGED <<history, last_notification_id>>
       ELSE LET l  == IF c.op = "notify" /\ c.id = 0
                      THEN new_id(last_notification_id)
                      ELSE last_notification_id
                id == IF c.op = "notify" /\ c.id = 0 THEN l ELSE c.id
                h  == IF c.op = "notify"
                      THEN add_to_history(history, id, Notification(c.n))
                      ELSE IF c.op = "close"
                      THEN (IF c.id = 0
                            THEN shift_remove_index(history, unwrap(visible_on_bar))
                            ELSE shift_remove(history, c.id))
                      ELSE IF is_some(visible_on_bar)
                      THEN mark_read(history, unwrap(visible_on_bar))
                      ELSE history
            IN  /\ history' = h
                /\ last_notification_id' = l
                /\ call' = [call EXCEPT ![t].id = id]
                /\ pc' = [pc EXCEPT ![t] = "mutated"]
                /\ UNCHANGED <<out, result, lock>>

\* The handler's assignment to visible_on_bar.
move_cursor(t) ==
    LET c == call[t] IN
    /\ pc[t] = "mutated"
    /\ visible_on_bar' =
           IF c.op = "notify" THEN cursor_after_notify(history)
           ELSE IF c.op = "close" THEN reclamp(history, visible_on_bar)
           ELSE IF c.op = "mark_read" THEN visible_on_bar
           ELSE IF visible_on_bar = None THEN Some(0)
           ELSE IF c.op = "previous"
           THEN (IF unwrap(visible_on_bar) = 0 THEN visible_on_bar
                 ELSE Some(unwrap(visible_on_bar) - 1))
           ELSE (IF unwrap(visible_on_bar) = Len(history) - 1 THEN visible_on_bar
                 ELSE Some(unwrap(visible_on_bar) + 1))
    /\ pc' = [pc EXCEPT ![t] = "moved"]
    /\ UNCHANGED <<history, last_notification_id, out, result, trigger, pre,
                   lock, call>>

\* The handler's render, after which it returns.
render(t) ==
    LET c == call[t] IN
    /\ pc[t] = "moved"
    /\ Return(t,
              IF c.op = "notify"
              THEN new_notification_display(history, visible_on_bar)
              ELSE display_notifications_on_bar(history, visible_on_bar),
              IF index_panics(history, visible_on_bar) THEN Panic
              ELSE IF c.op = "notify" THEN Id(c.id)
              ELSE IF c.op = "close" THEN Ok
              ELSE Unit)
    /\ UNCHANGED <<history, visible_on_bar, last_notification_id, trigger, pre>>

TriggerArrives == \E t \in Threads : Arrive(t)

GetMut == \E t \in Threads : get_mut(t)

MutateHistory == \E t \in Threads : mutate_history(t)

MoveCursor == \E t \in Threads : move_cursor(t)

Render == \E t \in Threads : render(t)

NextLocked ==
    \/ TriggerArrives
    \/ GetMut
    \/ MutateHistory
    \/ MoveCursor
    \/ Render

SpecLocked == Init /\ [][NextLocked]_vars

\* ------------------------------------------------------------------------
\* Properties.  pre is the state the last trigger started from, trigger the
\* operation and its arguments, out and result what it printed and returned.

keys_in_order(h) == [i \in DOMAIN h |-> h[i].key]

is_plain(r) == "class" \notin DOMAIN r

\* C1: in every reachable state, a cursor Some(i) satisfies 0 <= i < history.len().
CursorInBounds ==
    is_some(visible_on_bar) =>
        /\ 0 <= unwrap(visible_on_bar)
        /\ unwrap(visible_on_bar) < Len(history)

\* A close removed the entry under a cursor at the last index and the cursor
\* was pulled back onto the new last index.
CursorInBoundsWitness ==
    /\ trigger.op = "close"
    /\ result = Ok
    /\ Len(pre.history) = 3
    /\ pre.visible_on_bar = Some(2)
    /\ Len(history) = 2
    /\ visible_on_bar = Some(1)

\* C2: after notify returns id, the cursor is the index of the entry stored
\* under id, also when a nonzero replaces_id already exists before the last
\* position.
CursorAtNotifiedEntry ==
    (trigger.op = "notify" /\ result.tag = "Id") =>
        /\ is_some(visible_on_bar)
        /\ unwrap(visible_on_bar) < Len(history)
        /\ history[unwrap(visible_on_bar) + 1].key = result.val

\* C3: notify with replaces_id = 0 allocates an ID that is not a key of the
\* history, so it appends: the length grows by one and every existing entry
\* is kept unchanged.
FreshIdAppends ==
    (trigger.op = "notify" /\ trigger.id = 0) =>
        /\ result.tag = "Id"
        /\ result.val \notin keys(pre.history)
        /\ Len(history) = Len(pre.history) + 1
        /\ SubSeq(history, 1, Len(pre.history)) = pre.history

\* C4: the generator assigns last_id + 1 below the maximum and 1 at the
\* maximum; notify never returns 0 and 0 is never a key of the history.
NewIdSkipsZero ==
    /\ (trigger.op = "notify" /\ trigger.id = 0) =>
           /\ last_notification_id =
                  (IF pre.last_notification_id < MaxId
                   THEN pre.last_notification_id + 1 ELSE 1)
           /\ result = Id(last_notification_id)
    /\ trigger.op = "notify" => (result.tag = "Id" /\ result.val # 0)
    /\ 0 \notin keys(history)

\* The generator wrapped: the last assigned ID was the maximum and notify
\* returned 1.
NewIdSkipsZeroWitness ==
    /\ trigger.op = "notify"
    /\ trigger.id = 0
    /\ pre.last_notification_id = MaxId
    /\ result = Id(1)
    /\ last_notification_id = 1

\* C5: notify with a nonzero replaces_id that is a key replaces that entry's
\* content (read reset to false) where it is: length, key order and last_id
\* are unchanged and replaces_id is returned; when the ID is absent the entry
\* is appended at the end and replaces_id is returned.
ReplaceInPlace ==
    (trigger.op = "notify" /\ trigger.id # 0) =>
        /\ result = Id(trigger.id)
        /\ IF trigger.id \in keys(pre.history)
           THEN /\ Len(history) = Len(pre.history)
                /\ keys_in_order(history) = keys_in_order(pre.history)
                /\ last_notification_id = pre.last_notification_id
                /\ \A i \in DOMAIN history :
                       IF history[i].key = trigger.id
                       THEN history[i].value = Notification(trigger.n)
                       ELSE history[i] = pre.history[i]
           ELSE history = Append(pre.history,
                                 [key |-> trigger.id, value |-> Notification(trigger.n)])

\* A read entry that was not the last one was replaced by different texts.
ReplaceInPlaceWitness ==
    /\ trigger.op = "notify"
    /\ trigger.id # 0
    /\ Len(pre.history) = 3
    /\ pre.history[1].key = trigger.id
    /\ pre.history[1].value.read
    /\ pre.history[1].value.app_name # Notification(trigger.n).app_name
    /\ history[1].value = Notification(trigger.n)

\* C6: a close_notification that completes re-clamps the cursor against the
\* new history: Some(i) with i below the new length stays, otherwise it
\* becomes Some(new length - 1), or None when the history is empty; None
\* stays None.
CloseReclampsCursor ==
    (trigger.op = "close" /\ result = Ok) =>
        IF pre.visible_on_bar = None
        THEN visible_on_bar = None
        ELSE IF unwrap(pre.visible_on_bar) < Len(history)
        THEN visible_on_bar = pre.visible_on_bar
        ELSE IF Len(history) = 0
        THEN visible_on_bar = None
        ELSE visible_on_bar = Some(Len(history) - 1)

\* The entry at the cursor, the last one, was closed by its ID and the cursor
\* moved to the new last index.
CloseReclampsCursorWitness ==
    /\ trigger.op = "close"
    /\ trigger.id # 0
    /\ result = Ok
    /\ Len(pre.history) = 2
    /\ pre.visible_on_bar = Some(1)
    /\ pre.history[2].key = trigger.id
    /\ visible_on_bar = Some(0)

\* C7: close_notification(0) with cursor Some(i) removes exactly the entry at
\* position i: one entry fewer, every other entry unchanged and in the same
\* relative order, and the cursor clamped to the new history.
CloseZeroRemovesVisible ==
    (trigger.op = "close" /\ trigger.id = 0 /\ is_some(pre.visible_on_bar)) =>
        LET i == unwrap(pre.visible_on_bar)
        IN  /\ result = Ok
            /\ Len(history) = Len(pre.history) - 1
            /\ \A j \in DOMAIN history :
                   history[j] = pre.history[IF j <= i THEN j ELSE j + 1]
            /\ visible_on_bar =
                   (IF i < Len(history) THEN Some(i)
                    ELSE IF Len(history) = 0 THEN None
                    ELSE Some(Len(history) - 1))

\* Two entries with the cursor on index 1: close_notification(0) left one
\* entry, the former first one, and the cursor on index 0.
CloseZeroRemovesVisibleWitness ==
    /\ trigger.op = "close"
    /\ trigger.id = 0
    /\ Len(pre.history) = 2
    /\ pre.visible_on_bar = Some(1)
    /\ history = <<pre.history[1]>>
    /\ visible_on_bar = Some(0)

\* C8: closing the last remaining entry, by its ID or by close_notification(0),
\* leaves the history empty and the cursor None and prints an empty bar text,
\* and so does every later render before the next notify.
CloseLastClearsBar ==
    /\ (/\ trigger.op = "close"
        /\ Len(pre.history) = 1
        /\ trigger.id \in {0, pre.history[1].key}) =>
           /\ history = <<>>
           /\ visible_on_bar = None
           /\ Len(out) = 1
           /\ out[1].text = <<>>
    /\ (history = <<>> /\ trigger.op # "notify") =>
           /\ visible_on_bar = None
           /\ \A k \in DOMAIN out : out[k].text = <<>>

\* The only entry was closed through close_notification(0) and the render
\* shows nothing on the bar.
CloseLastClearsBarWitness ==
    /\ trigger.op = "close"
    /\ trigger.id = 0
    /\ Len(pre.history) = 1
    /\ pre.visible_on_bar = Some(0)
    /\ history = <<>>
    /\ Len(out) = 1
    /\ out[1].text = <<>>

\* C9: close_notification(id) with a nonzero id that is not a key returns Ok
\* and changes nothing (history, read flags, cursor, last_id); it prints one
\* plain render.
CloseAbsentChangesNothing ==
    (trigger.op = "close" /\ trigger.id # 0 /\ trigger.id \notin keys(pre.history)) =>
        /\ result = Ok
        /\ history = pre.history
        /\ visible_on_bar = pre.visible_on_bar
        /\ last_notification_id = pre.last_notification_id
        /\ Len(out) = 1
        /\ is_plain(out[1])

\* An ID smaller than the history length, and not a key, was closed.
CloseAbsentChangesNothingWitness ==
    /\ trigger.op = "close"
    /\ trigger.id # 0
    /\ trigger.id \notin keys(pre.history)
    /\ trigger.id < Len(pre.history)
    /\ result = Ok
    /\ Len(out) = 1

\* C10: close_notification(0) with cursor None fails loudly, it panics
\* instead of returning Ok, and aborts only that operation: history, read
\* flags, cursor and last_id are unchanged and nothing is printed.
CloseZeroWithoutCursorPanics ==
    (trigger.op = "close" /\ trigger.id = 0 /\ pre.visible_on_bar = None) =>
        /\ result = Panic
        /\ history = pre.history
        /\ visible_on_bar = pre.visible_on_bar
        /\ last_notification_id = pre.last_notification_id
        /\ out = <<>>

\* close_notification(0) arrived after IDs had been assigned and every entry
\* had been closed again.
CloseZeroWithoutCursorPanicsWitness ==
    /\ trigger.op = "close"
    /\ trigger.id = 0
    /\ pre.visible_on_bar = None
    /\ pre.last_notification_id > 0
    /\ result = Panic

\* C11: previous and next on an empty history are no-ops: history, cursor
\* (it stays None) and last_id are unchanged and nothing is printed.
NavigationOnEmptyIsNoop ==
    (trigger.op \in {"previous", "next"} /\ pre.history = <<>>) =>
        /\ result = Unit
        /\ history = <<>>
        /\ pre.visible_on_bar = None
        /\ visible_on_bar = None
        /\ last_notification_id = pre.last_notification_id
        /\ out = <<>>

\* previous arrived after notifications had been received and all closed.
NavigationOnEmptyIsNoopWitness ==
    /\ trigger.op = "previous"
    /\ pre.history = <<>>
    /\ pre.last_notification_id > 0
    /\ history = <<>>
    /\ out = <<>>

\* The tooltip and the bar text stated from the history, for the properties.
tooltip_line(e) ==
    format_with(e.value, IF e.value.read THEN read_format ELSE unread_format)

RECURSIVE lines_last_first(_)
lines_last_first(h) ==
    IF h = <<>> THEN <<>>
    ELSE <<tooltip_line(h[Len(h)])>> \o lines_last_first(SubSeq(h, 1, Len(h) - 1))

RECURSIVE newline_joined(_)
newline_joined(ls) ==
    IF ls = <<>> THEN <<>>
    ELSE IF Len(ls) = 1 THEN ls[1]
    ELSE ls[1] \o <<"\n">> \o newline_joined(Tail(ls))

newlines_in(t) == Cardinality({k \in DOMAIN t : t[k] = "\n"})

shown_text(h, c) ==
    IF c = None THEN <<>> ELSE format_with(h[unwrap(c) + 1].value, bar_format)

\* C13: the tooltip of every render is the newline-joined list of all
\* history entries, last position first, each formatted with the read
\* template if its read flag is true and with the unread template otherwise;
\* it has history.len() items and does not depend on the cursor.
TooltipListsHistoryLastFirst ==
    \A k \in DOMAIN out :
        /\ out[k].tooltip = newline_joined(lines_last_first(history))
        /\ IF history = <<>>
           THEN out[k].tooltip = <<>>
           ELSE newlines_in(out[k].tooltip) = Len(history) - 1

\* Three entries inserted as 1, 2, 3, the first read and the last unread and
\* of different texts: the tooltip starts with the line of entry 3.
TooltipListsHistoryLastFirstWitness ==
    /\ Len(out) = 1
    /\ keys_in_order(history) = <<1, 2, 3>>
    /\ history[1].value.read
    /\ ~history[3].value.read
    /\ history[1].value.app_name # history[3].value.app_name
    /\ SubSeq(out[1].tooltip, 1, Len(unread_format)) =
           format_with(history[3].value, unread_format)

\* C14: every trigger prints at most one record: notify exactly one, with
\* class "notify"; a completed close_notification, mark-current-read and
\* previous/next on a non-empty history exactly one without class;
\* previous/next on an empty history none.  Each record shows the state after
\* the trigger's mutation.
OneRenderPerTrigger ==
    /\ Len(out) <= 1
    /\ trigger.op = "notify" =>
           (Len(out) = 1 /\ ~is_plain(out[1]) /\ out[1].class = "notify")
    /\ (trigger.op = "close" /\ result = Ok) => (Len(out) = 1 /\ is_plain(out[1]))
    /\ trigger.op = "mark_read" => (Len(out) = 1 /\ is_plain(out[1]))
    /\ trigger.op \in {"previous", "next"} =>
           IF pre.history = <<>> THEN out = <<>>
           ELSE (Len(out) = 1 /\ is_plain(out[1]))
    /\ \A k \in DOMAIN out :
           /\ out[k].text = shown_text(history, visible_on_bar)
           /\ out[k].tooltip = newline_joined(lines_last_first(history))

\* A notify moved the cursor to another entry and its one record, of class
\* notify, shows the entry the cursor is on now.
OneRenderPerTriggerWitness ==
    /\ trigger.op = "notify"
    /\ is_some(pre.visible_on_bar)
    /\ pre.visible_on_bar # visible_on_bar
    /\ Len(out) = 1
    /\ out[1].class = "notify"
    /\ out[1].text = shown_text(history, visible_on_bar)
    /\ out[1].text # shown_text(pre.history, pre.visible_on_bar)

\* pre.history with the entry at 0-based index i read and nothing else changed.
with_read(h, i) == [j \in DOMAIN h |-> IF j = i + 1 THEN [h[j] EXCEPT !.value.read = TRUE] ELSE h[j]]

\* C15: on a non-empty history previous maps None to Some(0) marking nothing,
\* Some(0) to Some(0) marking index 0 read and Some(i), i > 0, to Some(i-1)
\* marking index i read; next maps None to Some(0), Some(len-1) to itself
\* marking it read and Some(i), i < len-1, to Some(i+1) marking index i read.
\* Neither changes membership, order, content, last_id or another entry's
\* flag, and next at the last index, once done, changes nothing any more.
NavigationRules ==
    /\ (trigger.op \in {"previous", "next"} /\ pre.history # <<>>) =>
           LET c   == pre.visible_on_bar
               len == Len(pre.history)
           IN  /\ result = Unit
               /\ last_notification_id = pre.last_notification_id
               /\ IF c = None
                  THEN /\ visible_on_bar = Some(0)
                       /\ history = pre.history
                  ELSE /\ history = with_read(pre.history, unwrap(c))
                       /\ visible_on_bar =
                              (IF trigger.op = "previous"
                               THEN (IF unwrap(c) = 0 THEN Some(0)
                                     ELSE Some(unwrap(c) - 1))
                               ELSE (IF unwrap(c) = len - 1 THEN Some(len - 1)
                                     ELSE Some(unwrap(c) + 1)))
    /\ (/\ trigger.op = "next"
        /\ pre.history # <<>>
        /\ pre.visible_on_bar = Some(Len(pre.history) - 1)
        /\ pre.history[Len(pre.history)].value.read) =>
           /\ history = pre.history
           /\ visible_on_bar = pre.visible_on_bar

\* next moved the cursor from the first of three entries to the second and
\* marked the first, until then unread, read.
NavigationRulesWitness ==
    /\ trigger.op = "next"
    /\ Len(pre.history) = 3
    /\ pre.visible_on_bar = Some(0)
    /\ ~pre.history[1].value.read
    /\ visible_on_bar = Some(1)
    /\ history[1].value.read

\* C16: mark-current-read never changes the cursor, the membership or order
\* of the history or last_id; with cursor Some(i) it sets only entry i's flag
\* and doing it again changes nothing; with cursor None it changes no state
\* and still prints one record.
MarkReadFrame ==
    trigger.op = "mark_read" =>
        /\ result = Unit
        /\ visible_on_bar = pre.visible_on_bar
        /\ last_notification_id = pre.last_notification_id
        /\ keys_in_order(history) = keys_in_order(pre.history)
        /\ Len(out) = 1
        /\ IF pre.visible_on_bar = None
           THEN history = pre.history
           ELSE /\ history = with_read(pre.history, unwrap(pre.visible_on_bar))
                /\ pre.history[unwrap(pre.visible_on_bar) + 1].value.read =>
                       history = pre.history

\* The middle one of three entries was marked read while the first stayed
\* unread.
MarkReadFrameWitness ==
    /\ trigger.op = "mark_read"
    /\ Len(pre.history) = 3
    /\ pre.visible_on_bar = Some(1)
    /\ ~pre.history[2].value.read
    /\ history[2].value.read
    /\ ~history[1].value.read

\* The last notify stored its notification under this key.
stored_by_notify(k) == trigger.op = "notify" /\ result = Id(k)

\* C17: an entry is unread when notify creates it, and once read it stays
\* read while it is in the history and no notify replaces it; notify changes
\* no other entry's flag and close_notification changes no remaining one's,
\* so only previous, next and mark-current-read change flags.
ReadFlagLifecycle ==
    /\ \A j \in DOMAIN history :
           stored_by_notify(history[j].key) => ~history[j].value.read
    /\ \A i \in DOMAIN pre.history : \A j \in DOMAIN history :
           (pre.history[i].key = history[j].key /\ ~stored_by_notify(history[j].key)) =>
               /\ pre.history[i].value.read => history[j].value.read
               /\ trigger.op \in {"notify", "close"} =>
                      history[j].value.read = pre.history[i].value.read
               /\ history[j].value.read # pre.history[i].value.read =>
                      trigger.op \in {"previous", "next", "mark_read"}

\* A notify replaced a read entry, now unread again, next to another read
\* entry that stayed read.
ReadFlagLifecycleWitness ==
    /\ trigger.op = "notify"
    /\ Len(pre.history) = 2
    /\ Len(history) = 2
    /\ result = Id(pre.history[1].key)
    /\ pre.history[1].value.read
    /\ ~history[1].value.read
    /\ pre.history[2].value.read
    /\ history[2].value.read

\* C19: in every reachable state the cursor is None exactly when the history
\* is empty; so previous and next never take their None arm on a non-empty
\* history and no record shows an empty bar while notifications exist.
CursorNoneIffEmpty ==
    /\ (visible_on_bar = None) <=> (history = <<>>)
    /\ (trigger.op \in {"previous", "next"} /\ pre.history # <<>>) =>
           is_some(pre.visible_on_bar)
    /\ \A k \in DOMAIN out : history # <<>> => out[k].text # <<>>

\* close_notification(0) removed the last of three entries, the one under
\* the cursor, and the bar went on showing an entry.
CursorNoneIffEmptyWitness ==
    /\ trigger.op = "close"
    /\ trigger.id = 0
    /\ Len(pre.history) = 3
    /\ pre.visible_on_bar = Some(2)
    /\ Len(history) = 2
    /\ is_some(visible_on_bar)
    /\ Len(out) = 1
    /\ out[1].text # <<>>

\* C20: close_notification(id) with a nonzero id that is in the history and
\* is not the ID of the entry under the cursor leaves the same notification
\* on the bar: the ID under the cursor is the same after the call as before,
\* whether the removed entry was before or after the cursor.
CloseOtherKeepsVisible ==
    (/\ trigger.op = "close"
     /\ trigger.id # 0
     /\ trigger.id \in keys(pre.history)
     /\ is_some(pre.visible_on_bar)
     /\ pre.history[unwrap(pre.visible_on_bar) + 1].key # trigger.id) =>
        /\ is_some(visible_on_bar)
        /\ unwrap(visible_on_bar) < Len(history)
        /\ history[unwrap(visible_on_bar) + 1].key =
               pre.history[unwrap(pre.visible_on_bar) + 1].key

\* The cursor is one a handler may index the history with.
cursor_valid ==
    /\ (visible_on_bar = None) <=> (history = <<>>)
    /\ is_some(visible_on_bar) => unwrap(visible_on_bar) < Len(history)

in_handler(t) == pc[t] \in {"locked", "mutated", "moved"}

\* C18: protocol calls and signal-driven operations are serialized on the
\* server object: at most one handler is between taking the object and
\* returning, and it is the one holding it; a handler that starts, and every
\* state in which nobody holds the object, sees a valid cursor, so no signal
\* handler reads or moves the cursor between a protocol call's history
\* mutation and its cursor update and render, and no handler panics on the
\* cursor except close_notification(0) on an empty history.
HandlersSerialized ==
    /\ \A t, u \in Threads : (in_handler(t) /\ in_handler(u)) => t = u
    /\ \A t \in Threads : in_handler(t) => lock = t
    /\ (\A t \in Threads : ~in_handler(t)) => lock = Free
    /\ \A t \in Threads : pc[t] = "locked" => cursor_valid
    /\ lock = Free => cursor_valid
    /\ (lock = Free /\ result = Panic) => history = <<>>

\* close_notification(0) has removed the entry under a cursor at the last
\* index and has not clamped the cursor yet, while a signal waits for the
\* server object.
HandlersSerializedWitness ==
    /\ lock = "protocol"
    /\ pc["protocol"] = "mutated"
    /\ call["protocol"].op = "close"
    /\ history # <<>>
    /\ visible_on_bar = Some(Len(history))
    /\ pc["signals"] = "waiting"
    /\ call["signals"].op = "next"

====
